---- MODULE Spec2Model ----
(***************************************************************************)
(* FinWalletCLI: the Wallet of backend/main.py as a state machine.         *)
(*                                                                         *)
(* Strings of the source that are not ASCII are written in ASCII here:     *)
(* the category "Dokhod" (income) is "Income", "Raskhod" (expense) is      *)
(* "Expense"; the printed messages are named by what they say.             *)
(*                                                                         *)
(* An optional Python argument is a tuple: None is <<>>, the value v is    *)
(* <<v>>.  A date string is the tuple of its characters, so that re.match  *)
(* and pd.to_datetime are computed on it.  Amounts are integers.           *)
(*                                                                         *)
(* menu is the Menu of the module's last lines: whether its loop still     *)
(* runs, and what its last iteration read, selected, caught and printed.   *)
(***************************************************************************)
EXTENDS Integers, Sequences, FiniteSets, TLC

VARIABLES data, balance, file, last, menu

vars == <<data, balance, file, last, menu>>

-----------------------------------------------------------------------------
(* Bounds of the model                                                     *)

MaxRows == 2

MaxFieldsRows == 1

MaxMenuRows == 1

MaxBalance == 200

-----------------------------------------------------------------------------
(* Python values                                                           *)

None == <<>>

Some(v) == <<v>>

\* Truth value of an optional str: None and "" are falsy
TruthyStr(o) == o # None /\ Len(o[1]) > 0

\* Truth value of an optional number: None and 0 are falsy
TruthyNum(o) == o # None /\ o[1] # 0

-----------------------------------------------------------------------------
(* Wallet.__init__ constants                                               *)

Income == "Income"

Expense == "Expense"

CATEGORIES == <<Income, Expense>>

MAX_DESC_LENGTH == 64

NoFile == [exists |-> FALSE, rows |-> <<>>]

-----------------------------------------------------------------------------
(* Dates: DATE_PATTERN, pd.to_datetime(date, format="%Y-%m-%d") and        *)
(* pd.Timestamp.now().date()                                               *)

Digits == <<"0", "1", "2", "3", "4", "5", "6", "7", "8", "9">>

IsDigit(c) == \E i \in 1..10 : Digits[i] = c

DigitVal(c) == (CHOOSE i \in 1..10 : Digits[i] = c) - 1

\* re.match(r"\d{4}-\d{2}-\d{2}", s): anchored at the start only
DATE_PATTERN(s) ==
    /\ Len(s) >= 10
    /\ \A i \in {1, 2, 3, 4, 6, 7, 9, 10} : IsDigit(s[i])
    /\ s[5] = "-"
    /\ s[8] = "-"

Num(s, from, to) ==
    LET RECURSIVE acc(_)
        acc(i) == IF i < from THEN 0 ELSE 10 * acc(i - 1) + DigitVal(s[i])
    IN acc(to)

IsLeap(y) == (y % 4 = 0 /\ y % 100 # 0) \/ y % 400 = 0

DaysIn(y, m) ==
    IF m = 2 THEN (IF IsLeap(y) THEN 29 ELSE 28)
    ELSE IF m \in {4, 6, 9, 11} THEN 30 ELSE 31

\* pd.to_datetime on a string that matched DATE_PATTERN: the whole string
\* has to be a calendar date inside the Timestamp range, otherwise ValueError
to_datetime_ok(s) ==
    /\ Len(s) = 10
    /\ Num(s, 1, 4) \in 1678..2261
    /\ Num(s, 6, 7) \in 1..12
    /\ Num(s, 9, 10) \in 1..DaysIn(Num(s, 1, 4), Num(s, 6, 7))

to_datetime(s) ==
    [type |-> "Timestamp", y |-> Num(s, 1, 4), m |-> Num(s, 6, 7), d |-> Num(s, 9, 10)]

\* pd.Timestamp.now().date(): a datetime.date, the clock fixed to one day
Today == [type |-> "date", y |-> 2022, m |-> 2, d |-> 3]

-----------------------------------------------------------------------------
(* The DataFrame: a sequence of rows in position order, each row carrying  *)
(* its index label (the "id" column of the file)                           *)

Row(id, date, category, amount, description) ==
    [id |-> id, date |-> date, category |-> category, amount |-> amount,
     description |-> description]

HasLabel(df, index) == \E i \in 1..Len(df) : df[i].id = index

\* position of the row that .loc[index] addresses
Loc(df, index) == CHOOSE i \in 1..Len(df) : df[i].id = index

\* concat without ignore_index: every row keeps the label it came with
concat_keep_labels(df, row) == Append(df, row)

\* concat with the new row first
concat_new_first(df, row) ==
    LET all == <<row>> \o df
    IN [i \in 1..Len(all) |-> [all[i] EXCEPT !.id = i - 1]]

\* pd.concat([df, new], ignore_index=True): the labels become 0..n-1
concat_ignore_index(df, row) ==
    LET all == Append(df, row)
    IN [i \in 1..Len(all) |-> [all[i] EXCEPT !.id = i - 1]]

RECURSIVE SumAmount(_, _)
SumAmount(df, category) ==
    IF df = <<>> THEN 0
    ELSE (IF df[1].category = category THEN df[1].amount ELSE 0)
         + SumAmount(Tail(df), category)

\* the expenses added instead of subtracted
set_balance_total(df) == SumAmount(df, Income) + SumAmount(df, Expense)

\* Wallet.__set_balance
set_balance(df) == SumAmount(df, Income) - SumAmount(df, Expense)

-----------------------------------------------------------------------------
(* The csv file: DataFrame.to_csv(index_label="id") and pd.read_csv        *)

TwoDigits(n) == <<Digits[(n \div 10) + 1], Digits[(n % 10) + 1]>>

FourDigits(n) == TwoDigits(n \div 100) \o TwoDigits(n % 100)

IsoDate(v) == FourDigits(v.y) \o <<"-">> \o TwoDigits(v.m) \o <<"-">> \o TwoDigits(v.d)

Midnight == <<" ", "0", "0", ":", "0", "0", ":", "0", "0">>

\* the date column is datetime64 when every row holds a Timestamp, otherwise
\* it holds objects and each is written with str()
IsDatetimeColumn(df) == \A i \in 1..Len(df) : df[i].date.type = "Timestamp"

FormatDate(v, datetimeColumn) ==
    IF v.type = "str" THEN v.text
    ELSE IF v.type = "Timestamp" /\ ~datetimeColumn THEN IsoDate(v) \o Midnight
    ELSE IsoDate(v)

\* Wallet.__save_data
to_csv(df) ==
    [exists |-> TRUE,
     rows |-> [i \in 1..Len(df) |->
                 [df[i] EXCEPT !.date = FormatDate(df[i].date, IsDatetimeColumn(df))]]]

\* pd.read_csv(index_col=0): the date column comes back as text
read_csv(f) ==
    [i \in 1..Len(f.rows) |->
        [f.rows[i] EXCEPT !.date = [type |-> "str", text |-> f.rows[i].date]]]

\* Wallet.__load_data
load_data(f) == IF f.exists THEN read_csv(f) ELSE <<>>

-----------------------------------------------------------------------------
(* What a call printed and how it ended                                    *)

MsgInsufficientFunds == "insufficient funds"

MsgCheckData == "check the entered data"

MsgRequiredFields == "required fields are not filled"

MsgBadRecordNumber == "record number is incorrect"

MsgCheckInput == "check the data you entered"

\* applied: the columns of the row that edit_entry assigned; rejected: the
\* columns whose balance check (__change_category, __change_amount) failed
Outcome(op, printed, raised, ret, applied, rejected) ==
    [op |-> op, printed |-> printed, raised |-> raised, ret |-> ret,
     applied |-> applied, rejected |-> rejected]

Returned(op, printed, raised, ret) == Outcome(op, printed, raised, ret, {}, {})

\* The wallet after a call: self.data, self.balance, the file, and the outcome
After(df, bal, f, outcome) ==
    [data |-> df, balance |-> bal, file |-> f, last |-> outcome]

-----------------------------------------------------------------------------
(* The balance changers.  Each returns what the method did: the exception  *)
(* it raised (if any), its return value, the balance it left and what it   *)
(* printed.                                                                *)

Changed(raised, ok, bal, printed) ==
    [raised |-> raised, ok |-> ok, balance |-> bal, printed |-> printed]

\* Wallet.increase_balance: balance += amount; None + number is a TypeError
increase_balance(bal, amount) ==
    IF amount = None THEN Changed("TypeError", FALSE, bal, <<>>)
    ELSE Changed("None", TRUE, bal + amount[1], <<>>)

\* decrease_balance without the check of the new balance
decrease_balance_unchecked(bal, amount) ==
    IF amount = None THEN Changed("TypeError", FALSE, bal, <<>>)
    ELSE Changed("None", TRUE, bal - amount[1], <<>>)

\* Wallet.decrease_balance
decrease_balance(bal, amount) ==
    IF amount = None THEN Changed("TypeError", FALSE, bal, <<>>)
    ELSE IF bal - amount[1] >= 0 THEN Changed("None", TRUE, bal - amount[1], <<>>)
    ELSE Changed("None", FALSE, bal, <<MsgInsufficientFunds>>)

\* BALANCE_CHANGERS.get with increase_balance as the default
BALANCE_CHANGERS_default(category, bal, amount) ==
    IF category = Expense THEN decrease_balance(bal, amount)
    ELSE increase_balance(bal, amount)

\* self.BALANCE_CHANGERS.get(category)(amount): calling the None that .get
\* returns for an unknown category is a TypeError
BALANCE_CHANGERS(category, bal, amount) ==
    IF category = Income THEN increase_balance(bal, amount)
    ELSE IF category = Expense THEN decrease_balance(bal, amount)
    ELSE Changed("TypeError", FALSE, bal, <<>>)

-----------------------------------------------------------------------------
(* Wallet.add_entry                                                        *)

\* the "date" value of new_entry; evaluated after the balance changer
new_entry_date_raises(date) ==
    date # None /\ DATE_PATTERN(date[1]) /\ ~to_datetime_ok(date[1])

new_entry_date(date) ==
    IF date # None /\ DATE_PATTERN(date[1]) THEN to_datetime(date[1]) ELSE Today

add_entry(category, date, amount, description) ==
    LET checked == /\ TruthyStr(category)
                   /\ TruthyStr(description)
                   /\ Len(description[1]) < MAX_DESC_LENGTH
        ch == BALANCE_CHANGERS(category[1], balance, amount)
        df == concat_ignore_index(data,
                  Row(0, new_entry_date(date), category[1], amount[1], description[1]))
    IN  IF ~checked
        THEN After(data, balance, file,
                   Returned("add_entry", <<MsgCheckData>>, "None", None))
        ELSE IF ch.raised = "TypeError"
        THEN \* caught by add_entry
             After(data, balance, file,
                   Returned("add_entry", <<MsgRequiredFields>>, "None", None))
        ELSE IF ~ch.ok
        THEN After(data, ch.balance, file,
                   Returned("add_entry", ch.printed \o <<MsgCheckData>>, "None", None))
        ELSE IF new_entry_date_raises(date)
        THEN \* ValueError from pd.to_datetime leaves the method after the
             \* balance changer has run
             After(data, ch.balance, file,
                   Returned("add_entry", ch.printed, "ValueError", None))
        ELSE After(df, ch.balance, to_csv(df),
                   Returned("add_entry", ch.printed, "None", None))

-----------------------------------------------------------------------------
(* Wallet.edit_entry and its two checks                                    *)

Checked(ok, bal) == [ok |-> ok, balance |-> bal]

\* __change_amount taking the old amount with the sign of an unchanged
\* category whatever prev_category is
change_amount_same_category(df, bal, prev_category, index, amount) ==
    LET category == df[Loc(df, index)].category
        prev_amount == df[Loc(df, index)].amount * (-1)
        fake_balance == IF category = Expense
                        THEN bal - prev_amount - amount
                        ELSE bal + prev_amount + amount
    IN  IF fake_balance >= 0 THEN Checked(TRUE, fake_balance)
        ELSE Checked(FALSE, bal)

\* Wallet.__change_amount: df already carries the category this call may
\* have changed, prev_category is the category before the call
change_amount(df, bal, prev_category, index, amount) ==
    LET category == df[Loc(df, index)].category
        prev_amount == df[Loc(df, index)].amount
                         * (IF prev_category = category THEN -1 ELSE 1)
        fake_balance == IF category = Expense
                        THEN bal - prev_amount - amount
                        ELSE bal + prev_amount + amount
    IN  IF fake_balance >= 0 THEN Checked(TRUE, fake_balance)
        ELSE Checked(FALSE, bal)

\* __change_category never committing the balance it computed
change_category_keeps_balance(df, bal, category, index, amount) ==
    LET prev_amount == df[Loc(df, index)].amount
        curr_amount == IF TruthyNum(amount) THEN amount[1] ELSE prev_amount
        fake_balance == IF category = Expense
                        THEN bal - prev_amount - curr_amount
                        ELSE bal + prev_amount + curr_amount
    IN  Checked(fake_balance >= 0, bal)

\* __change_category without the check of the new balance
change_category_unchecked(df, bal, category, index, amount) ==
    LET prev_amount == df[Loc(df, index)].amount
        curr_amount == IF TruthyNum(amount) THEN amount[1] ELSE prev_amount
        fake_balance == IF category = Expense
                        THEN bal - prev_amount - curr_amount
                        ELSE bal + prev_amount + curr_amount
    IN  Checked(TRUE, IF ~TruthyNum(amount) THEN fake_balance ELSE bal)

\* Wallet.__change_category: the balance is committed here only when the
\* call supplies no (truthy) amount
change_category(df, bal, category, index, amount) ==
    LET prev_amount == df[Loc(df, index)].amount
        curr_amount == IF TruthyNum(amount) THEN amount[1] ELSE prev_amount
        fake_balance == IF category = Expense
                        THEN bal - prev_amount - curr_amount
                        ELSE bal + prev_amount + curr_amount
    IN  IF fake_balance >= 0
        THEN Checked(TRUE, IF ~TruthyNum(amount) THEN fake_balance ELSE bal)
        ELSE Checked(FALSE, bal)

InCATEGORIES(c) == \E i \in 1..Len(CATEGORIES) : CATEGORIES[i] = c

\* lines 193-207 of edit_entry: the four fields in order, then the save
edit_fields(index, category, date, amount, description) ==
    LET at == Loc(data, index)
        prev_category == data[at].category
        \* 1. category
        tryCategory == /\ TruthyStr(category)
                       /\ InCATEGORIES(category[1])
                       /\ category[1] # data[at].category
        cc == change_category(data, balance, category[1], index, amount)
        setCategory == tryCategory /\ cc.ok
        df1 == IF setCategory THEN [data EXCEPT ![at].category = category[1]] ELSE data
        bal1 == IF setCategory THEN cc.balance ELSE balance
        \* 2. date
        tryDate == TruthyStr(date) /\ DATE_PATTERN(date[1])
        dateRaises == tryDate /\ ~to_datetime_ok(date[1])
        setDate == tryDate /\ ~dateRaises
        df2 == IF setDate THEN [df1 EXCEPT ![at].date = to_datetime(date[1])] ELSE df1
        \* 3. amount
        ca == change_amount(df2, bal1, prev_category, index, amount[1])
        setAmount == TruthyNum(amount) /\ ca.ok
        df3 == IF setAmount THEN [df2 EXCEPT ![at].amount = amount[1]] ELSE df2
        bal3 == IF setAmount THEN ca.balance ELSE bal1
        \* 4. description
        setDescription == TruthyStr(description)
                            /\ Len(description[1]) < MAX_DESC_LENGTH
        df4 == IF setDescription
               THEN [df3 EXCEPT ![at].description = description[1]] ELSE df3
        rejectedCategory == IF tryCategory /\ ~cc.ok THEN {"category"} ELSE {}
    IN  IF dateRaises
        THEN \* ValueError from pd.to_datetime leaves the method: what the
             \* category step did stays, nothing is saved
             After(df1, bal1, file,
                   Outcome("edit_entry", <<>>, "ValueError", None,
                           IF setCategory THEN {"category"} ELSE {},
                           rejectedCategory))
        ELSE After(df4, bal3, to_csv(df4),
                   Outcome("edit_entry", <<>>, "None", None,
                           (IF setCategory THEN {"category"} ELSE {})
                           \cup (IF setDate THEN {"date"} ELSE {})
                           \cup (IF setAmount THEN {"amount"} ELSE {})
                           \cup (IF setDescription THEN {"description"} ELSE {}),
                           rejectedCategory
                           \cup (IF TruthyNum(amount) /\ ~ca.ok THEN {"amount"} ELSE {})))

\* edit_entry addressing the row by position, a negative index counting from
\* the end
edit_entry_positional(index, category, date, amount, description) ==
    IF HasLabel(data, index)
    THEN edit_fields(index, category, date, amount, description)
    ELSE IF index < 0 /\ HasLabel(data, index + Len(data))
    THEN edit_fields(index + Len(data), category, date, amount, description)
    ELSE After(data, balance, file,
               Returned("edit_entry", <<MsgBadRecordNumber>>, "None", None))

\* edit_entry deriving the balance from the rows again after the fields
edit_entry_recomputed(index, category, date, amount, description) ==
    IF HasLabel(data, index)
    THEN LET after == edit_fields(index, category, date, amount, description)
         IN  [after EXCEPT !.balance = set_balance(after.data)]
    ELSE After(data, balance, file,
               Returned("edit_entry", <<MsgBadRecordNumber>>, "None", None))

edit_entry(index, category, date, amount, description) ==
    IF HasLabel(data, index)
    THEN edit_fields(index, category, date, amount, description)
    ELSE \* KeyError from self.data.loc[[index]], caught
         After(data, balance, file,
               Returned("edit_entry", <<MsgBadRecordNumber>>, "None", None))

-----------------------------------------------------------------------------
(* Wallet.search_entries                                                   *)

SelectRows(df, keep(_)) == SelectSeq(df, keep)

\* self.data["date"] == date, row by row.  A datetime64 column parses the
\* string and compares the instants (no match when it does not parse); an
\* object column compares each value with the str, and only a str equals one
DateEquals(df, v, s) ==
    IF IsDatetimeColumn(df)
    THEN DATE_PATTERN(s) /\ to_datetime_ok(s) /\ v = to_datetime(s)
    ELSE v.type = "str" /\ v.text = s

\* search_entries keeping the rows it selected by category in self.data
search_entries_narrowing(index, category, date, amount) ==
    LET byCategory(r) == r.category = category[1]
        byDate(r) == DateEquals(data, r.date, date[1])
        byAmount(r) == r.amount = amount[1]
        found(rows) == Returned("search_entries", <<>>, "None", Some(rows))
    IN  IF index # None
        THEN After(data, balance, file,
                   IF HasLabel(data, index[1])
                   THEN found(<<data[Loc(data, index[1])]>>)
                   ELSE Returned("search_entries", <<MsgCheckInput>>, "None", None))
        ELSE IF TruthyStr(category)
        THEN After(SelectRows(data, byCategory), balance, file,
                   found(SelectRows(data, byCategory)))
        ELSE IF TruthyStr(date)
        THEN After(data, balance, file, found(SelectRows(data, byDate)))
        ELSE IF TruthyNum(amount)
        THEN After(data, balance, file, found(SelectRows(data, byAmount)))
        ELSE After(data, balance, file, Returned("search_entries", <<>>, "None", None))

search_entries(index, category, date, amount) ==
    LET byCategory(r) == r.category = category[1]
        byDate(r) == DateEquals(data, r.date, date[1])
        byAmount(r) == r.amount = amount[1]
    IN  After(data, balance, file,
          IF index # None
          THEN IF HasLabel(data, index[1])
               THEN Returned("search_entries", <<>>, "None",
                             Some(<<data[Loc(data, index[1])]>>))
               ELSE \* KeyError, caught
                    Returned("search_entries", <<MsgCheckInput>>, "None", None)
          ELSE IF TruthyStr(category)
          THEN Returned("search_entries", <<>>, "None", Some(SelectRows(data, byCategory)))
          ELSE IF TruthyStr(date)
          THEN Returned("search_entries", <<>>, "None", Some(SelectRows(data, byDate)))
          ELSE IF TruthyNum(amount)
          THEN Returned("search_entries", <<>>, "None", Some(SelectRows(data, byAmount)))
          ELSE Returned("search_entries", <<>>, "None", None))

-----------------------------------------------------------------------------
(* Wallet.get_balance                                                      *)

get_balance ==
    After(data, balance, file, Returned("get_balance", <<>>, "None", Some(balance)))

-----------------------------------------------------------------------------
(* Wallet.__init__ on the file the wallet writes: a new process            *)

Wallet__init__(f) ==
    After(load_data(f), set_balance(load_data(f)), f,
          Returned("__init__", <<>>, "None", None))

-----------------------------------------------------------------------------
(* The menu: the options of the module's menu setup, Menu.option and one   *)
(* iteration of the loop of Menu.start.  What the user types is a tuple of *)
(* characters for a number or a date and a string for a text.              *)

MsgChooseMenuItem == "choose a correct menu item"

\* menu.add_option(...) in order, each option named by its action
options == <<"get_balance", "edit_entry", "search_entries", "add_entry", "exit">>

\* seq[number] of a Python list: -len..-1 count from the end, anything else
\* outside 0..len-1 is an IndexError
InRange(seq, number) == number >= 0 - Len(seq) /\ number < Len(seq)

ListItem(seq, number) ==
    seq[(IF number < 0 THEN number + Len(seq) ELSE number) + 1]

\* int(value) and float(value) on typed text without blanks: an optional
\* sign and decimal digits, anything else is a ValueError
IsNumeral(s) ==
    LET first == IF Len(s) > 0 /\ s[1] \in {"-", "+"} THEN 2 ELSE 1
    IN  /\ Len(s) >= first
        /\ \A i \in first..Len(s) : IsDigit(s[i])

NumeralValue(s) ==
    IF s[1] = "-" THEN 0 - Num(s, 2, Len(s))
    ELSE IF s[1] = "+" THEN Num(s, 2, Len(s))
    ELSE Num(s, 1, Len(s))

\* params[el] = to_type(value) if value else None, for to_type int or float
NumberParam(value) == IF value = <<>> THEN None ELSE Some(NumeralValue(value))

NumberParamRaises(value) == value # <<>> /\ ~IsNumeral(value)

\* the same for to_type str: the text itself, a date as its characters
TextParam(value) == IF Len(value) = 0 THEN None ELSE Some(value)

Loop(running, choice, selected, caught, printed) ==
    [running |-> running, choice |-> choice, option |-> selected,
     caught |-> caught, printed |-> printed]

Selected(after, selected, raised, printed, res) ==
    [wallet |-> after, option |-> selected, raised |-> raised, printed |-> printed,
     res |-> res]

\* Menu.option(number) with the text typed at its prompts: the wallet it
\* leaves, the option it took, the exception that leaves it, what its own
\* handler printed and what it returns
option(number, typed) ==
    LET self == After(data, balance, file, last)
        index == NumberParam(typed.number)
        category == TextParam(typed.category)
        date == TextParam(typed.date)
        amount == NumberParam(typed.amount)
        description == TextParam(typed.description)
        \* the action's result, a ValueError of the action caught here
        called(name, after) ==
            Selected(after, name, "None",
                     IF after.last.raised = "ValueError" THEN <<MsgCheckInput>>
                     ELSE <<>>,
                     after.last.ret)
        \* ValueError of int() or float() at a prompt, caught here
        unconverted(name) == Selected(self, name, "None", <<MsgCheckInput>>, None)
    IN  IF ~InRange(options, number)
        THEN Selected(self, "none", "IndexError", <<>>, None)
        ELSE LET name == ListItem(options, number)
             IN  IF name = "get_balance" THEN called(name, get_balance)
                 ELSE IF name = "exit" THEN Selected(self, name, "SystemExit", <<>>, None)
                 ELSE IF name = "edit_entry"
                 THEN IF NumberParamRaises(typed.number)
                           \/ NumberParamRaises(typed.amount)
                      THEN unconverted(name)
                      ELSE IF index = None
                      THEN \* self.data.loc[[None]]: KeyError, caught by edit_entry
                           called(name,
                                  After(data, balance, file,
                                        Returned("edit_entry", <<MsgBadRecordNumber>>,
                                                 "None", None)))
                      ELSE called(name, edit_entry(index[1], category, date, amount,
                                                   description))
                 ELSE IF name = "search_entries"
                 THEN IF NumberParamRaises(typed.number)
                           \/ NumberParamRaises(typed.amount)
                      THEN unconverted(name)
                      ELSE called(name, search_entries(index, category, date, amount))
                 ELSE IF NumberParamRaises(typed.amount)
                      THEN unconverted(name)
                      ELSE called(name, add_entry(category, date, amount, description))

\* if (res := self.option(choice)) is not None: print(f"{res}\n")
ShowResult(res) == IF res = None THEN <<>> ELSE <<"result">>

\* the loop of start with only IndexError in its except clause
start_index_error_only(choice, typed) ==
    LET self == After(data, balance, file, last)
        number == NumeralValue(choice)
        o == option(number - 1, typed)
    IN  IF ~IsNumeral(choice)
        THEN [wallet |-> self, menu |-> Loop(FALSE, None, "none", "None", <<>>)]
        ELSE IF o.raised = "IndexError"
        THEN [wallet |-> self,
              menu |-> Loop(TRUE, Some(number), "none", "IndexError", <<MsgChooseMenuItem>>)]
        ELSE IF o.raised = "SystemExit"
        THEN [wallet |-> self, menu |-> Loop(FALSE, Some(number), o.option, "None", <<>>)]
        ELSE [wallet |-> o.wallet,
              menu |-> Loop(TRUE, Some(number), o.option,
                            IF o.printed # <<>> THEN "ValueError" ELSE "None",
                            o.printed \o ShowResult(o.res))]

\* Menu.start, one iteration of "while True": show, read the choice, run
\* the option, print its result; IndexError and ValueError are caught,
\* SystemExit from sys.exit ends the loop
start(choice, typed) ==
    LET self == After(data, balance, file, last)
        number == NumeralValue(choice)
        o == option(number - 1, typed)
    IN  IF ~IsNumeral(choice)
        THEN [wallet |-> self,
              menu |-> Loop(TRUE, None, "none", "ValueError", <<MsgChooseMenuItem>>)]
        ELSE IF o.raised = "IndexError"
        THEN [wallet |-> self,
              menu |-> Loop(TRUE, Some(number), "none", "IndexError", <<MsgChooseMenuItem>>)]
        ELSE IF o.raised = "SystemExit"
        THEN [wallet |-> self, menu |-> Loop(FALSE, Some(number), o.option, "None", <<>>)]
        ELSE [wallet |-> o.wallet,
              menu |-> Loop(TRUE, Some(number), o.option,
                            IF o.printed # <<>> THEN "ValueError" ELSE "None",
                            o.printed \o ShowResult(o.res))]

-----------------------------------------------------------------------------
(* Arguments of the calls                                                  *)

GoodDate == <<"2", "0", "2", "2", "-", "0", "1", "-", "0", "1">>

\* matches DATE_PATTERN, is no calendar date
BadDate == <<"2", "0", "2", "2", "-", "1", "3", "-", "4", "5">>

\* does not match DATE_PATTERN
OtherDate == <<"0", "1", ".", "0", "1", ".", "2", "0", "2", "2">>

ShortDescription == "Test income"

\* 64 characters
LongDescription == "0123456789012345678901234567890123456789012345678901234567890123"

InvalidCategory == "Invalid category"

\* One call: the wallet becomes what the method leaves.  The number of rows
\* and the size of the balance are capped.
Becomes(after, maxRows) ==
    /\ Len(after.data) <= maxRows
    /\ after.balance \in -MaxBalance..MaxBalance
    /\ data' = after.data
    /\ balance' = after.balance
    /\ file' = after.file
    /\ last' = after.last

\* A call made on the wallet directly, not through the menu
Call(after, maxRows) == Becomes(after, maxRows) /\ UNCHANGED menu

AddEntryOver(N, C, D, A, S) ==
    \E category \in C, date \in D, amount \in A, description \in S :
        Call(add_entry(category, date, amount, description), N)

EditEntryOver(N, I, C, D, A, S) ==
    \E index \in I, category \in C, date \in D, amount \in A, description \in S :
        Call(edit_entry(index, category, date, amount, description), N)

SearchEntriesOver(N, I, C, D, A) ==
    \E index \in I, category \in C, date \in D, amount \in A :
        Call(search_entries(index, category, date, amount), N)

Restart == Call(Wallet__init__(file), MaxRows)

IndexArgs == 0..MaxRows

-----------------------------------------------------------------------------
(* Spec: the wallet used through add_entry and edit_entry, starting        *)
(* without a file; the amounts and the categories vary, no date is given   *)

Init ==
    /\ data = Wallet__init__(NoFile).data
    /\ balance = Wallet__init__(NoFile).balance
    /\ file = Wallet__init__(NoFile).file
    /\ last = Wallet__init__(NoFile).last
    /\ menu = Loop(TRUE, None, "none", "None", <<>>)

CategoryArgs == {None, Some(Income), Some(Expense)}

DateArgs == {None}

AmountArgs == {None, Some(-50), Some(0), Some(50), Some(100)}

DescriptionArgs == {None, Some(ShortDescription)}

AddEntry == AddEntryOver(MaxRows, CategoryArgs, DateArgs, AmountArgs, DescriptionArgs)

EditEntry == EditEntryOver(MaxRows, IndexArgs, CategoryArgs, DateArgs, AmountArgs, DescriptionArgs)

Next == AddEntry \/ EditEntry

Spec == Init /\ [][Next]_vars

-----------------------------------------------------------------------------
(* SpecFields: the same calls; the validated fields and the dates vary     *)

FieldsCategoryArgs == {None, Some(Income), Some(Expense), Some(InvalidCategory)}

FieldsDateArgs == {None, Some(GoodDate), Some(BadDate), Some(OtherDate)}

FieldsAmountArgs == {None, Some(50)}

FieldsDescriptionArgs == {None, Some(""), Some(ShortDescription), Some(LongDescription)}

AddEntryFields ==
    AddEntryOver(MaxFieldsRows, FieldsCategoryArgs, FieldsDateArgs, FieldsAmountArgs, FieldsDescriptionArgs)

FieldsIndexArgs == -1..MaxFieldsRows

EditEntryFields ==
    EditEntryOver(MaxFieldsRows, FieldsIndexArgs, FieldsCategoryArgs, FieldsDateArgs, FieldsAmountArgs,
                  FieldsDescriptionArgs)

NextFields == AddEntryFields \/ EditEntryFields

SpecFields == Init /\ [][NextFields]_vars

-----------------------------------------------------------------------------
(* SpecSearch: rows are added and searched                                 *)

SearchAddCategoryArgs == {Some(Income), Some(Expense)}

SearchAddDateArgs == {None, Some(GoodDate)}

SearchAddAmountArgs == {Some(0), Some(50)}

SearchAddDescriptionArgs == {Some(ShortDescription)}

SearchIndexArgs == {None} \cup {Some(i) : i \in IndexArgs}

SearchCategoryArgs == {None, Some(Income), Some(Expense)}

SearchDateArgs == {None, Some(GoodDate), Some(IsoDate(Today))}

SearchAmountArgs == {None, Some(0), Some(50)}

AddEntrySearch ==
    AddEntryOver(MaxRows, SearchAddCategoryArgs, SearchAddDateArgs, SearchAddAmountArgs,
                 SearchAddDescriptionArgs)

SearchEntries ==
    SearchEntriesOver(MaxRows, SearchIndexArgs, SearchCategoryArgs, SearchDateArgs, SearchAmountArgs)

GetBalance == Call(get_balance, MaxRows)

NextSearch == AddEntrySearch \/ SearchEntries \/ GetBalance

SpecSearch == Init /\ [][NextSearch]_vars

-----------------------------------------------------------------------------
(* SpecLoad: the wallet is used and constructed again from its file        *)

LoadCategoryArgs == {None, Some(Income), Some(Expense)}

LoadDateArgs == {None, Some(BadDate)}

LoadAmountArgs == {None, Some(50), Some(100)}

LoadDescriptionArgs == {Some(ShortDescription)}

AddEntryLoad ==
    AddEntryOver(MaxRows, LoadCategoryArgs, LoadDateArgs, LoadAmountArgs, LoadDescriptionArgs)

EditEntryLoad ==
    EditEntryOver(MaxRows, IndexArgs, LoadCategoryArgs, LoadDateArgs, LoadAmountArgs,
                  LoadDescriptionArgs)

NextLoad == AddEntryLoad \/ EditEntryLoad \/ Restart

SpecLoad == Init /\ [][NextLoad]_vars

-----------------------------------------------------------------------------
(* SpecMenu: the wallet driven through the menu, one iteration of the loop *)
(* of Menu.start per step, over what the user may type.                    *)

ChoiceInputs ==
    {<<>>, <<"a">>, <<"0">>, <<"1">>, <<"2">>, <<"3">>, <<"4">>, <<"5">>, <<"6">>,
     <<"-", "1">>, <<"-", "4">>, <<"-", "5">>}

MenuNumberInputs == {<<>>, <<"0">>, <<"x">>}

MenuCategoryInputs == {"", Income, Expense}

MenuDateInputs == {<<>>, BadDate}

MenuAmountInputs == {<<>>, <<"5", "0">>, <<"x">>}

MenuDescriptionInputs == {"", ShortDescription}

MenuStart ==
    /\ menu.running
    /\ \E choice \in ChoiceInputs, number \in MenuNumberInputs,
          category \in MenuCategoryInputs, date \in MenuDateInputs,
          amount \in MenuAmountInputs, description \in MenuDescriptionInputs :
          LET next == start(choice, [number |-> number, category |-> category,
                                     date |-> date, amount |-> amount,
                                     description |-> description])
          IN  /\ Becomes(next.wallet, MaxMenuRows)
              /\ menu' = next.menu

NextMenu == MenuStart

SpecMenu == Init /\ [][NextMenu]_vars

-----------------------------------------------------------------------------
(* What the claims speak of                                                *)

SignedAmount(r) ==
    IF r.category = Income THEN r.amount
    ELSE IF r.category = Expense THEN 0 - r.amount ELSE 0

\* sum(amount where Income) - sum(amount where Expense)
LedgerBalance(rows) ==
    LET RECURSIVE upTo(_)
        upTo(n) == IF n = 0 THEN 0 ELSE upTo(n - 1) + SignedAmount(rows[n])
    IN upTo(Len(rows))

Labels(rows) == {rows[i].id : i \in 1..Len(rows)}

\* a call that left the rows, the balance and the file as they were
NoMutation(after) ==
    after.data = data /\ after.balance = balance /\ after.file = file

Printed(after, msg) == \E i \in 1..Len(after.last.printed) : after.last.printed[i] = msg

\* a call that ended without a message and without an exception
Succeeded(after) == after.last.printed = <<>> /\ after.last.raised = "None"

ValidDescription(description) ==
    description # None /\ Len(description[1]) > 0 /\ Len(description[1]) < 64

-----------------------------------------------------------------------------
(* C1: starting from an empty ledger, after any sequence of add_entry and  *)
(* edit_entry calls the balance is the sum of the Income amounts minus the *)
(* sum of the Expense amounts of the stored rows.                          *)
C1_BalanceIsLedgerSum == balance = LedgerBalance(data)

(* C2: in every state reached by add_entry and edit_entry calls with any   *)
(* arguments the balance is not negative.                                  *)
C2_BalanceNeverNegative == balance >= 0

-----------------------------------------------------------------------------
C3_Start ==
    /\ Len(data) = 1
    /\ data[1].id = 0
    /\ data[1].category = Income
    /\ data[1].amount = 100
    /\ balance = 100

C3_Edit == edit_entry(0, Some(Expense), None, Some(50), None)

(* C3 as stated: from one Income row of 100 and balance 100,               *)
(* edit_entry(0, category=Expense, amount=50) ends with balance 50, row 0  *)
(* of category Expense and amount 50.                                      *)
C3_EditMakesExpense ==
    [][(C3_Start /\ Call(C3_Edit, MaxRows))
         => /\ balance' = 50
            /\ data'[1].category = Expense
            /\ data'[1].amount = 50]_vars

(* C3 amended: from one Income row of 100 and balance 100,                 *)
(* edit_entry(0, category=Expense, amount=50) ends with balance 50 and row *)
(* 0 of amount 50, and row 0 is still an Income row: the category change   *)
(* is rejected because it would leave the balance negative.                *)
C3_EditKeepsIncome ==
    [][(C3_Start /\ Call(C3_Edit, MaxRows))
         => /\ balance' = 50
            /\ Len(data') = 1
            /\ data'[1].category = Income
            /\ data'[1].amount = 50]_vars

C3_Witness ==
    /\ last.op = "edit_entry"
    /\ last.rejected = {"category"}
    /\ last.applied = {"amount"}
    /\ Len(data) = 1
    /\ data[1].category = Income
    /\ data[1].amount = 50
    /\ balance = 50

-----------------------------------------------------------------------------
(* C4: add_entry with category Expense and an amount greater than the      *)
(* balance is rejected for insufficient funds: balance, rows and file are  *)
(* what they were, no exception leaves the call, and with a valid          *)
(* description the insufficient-funds message is printed.                  *)
C4_InsufficientFundsRejected ==
    \A date \in DateArgs, amount \in AmountArgs, description \in DescriptionArgs :
        (amount # None /\ amount[1] > balance)
          => LET after == add_entry(Some(Expense), date, amount, description)
             IN  /\ NoMutation(after)
                 /\ after.last.raised = "None"
                 /\ ~Succeeded(after)
                 /\ ValidDescription(description) => Printed(after, MsgInsufficientFunds)

C4_Witness ==
    /\ last.op = "add_entry"
    /\ last.printed = <<MsgInsufficientFunds, MsgCheckData>>
    /\ Len(data) >= 1
    /\ balance > 0

-----------------------------------------------------------------------------
C5_FailsValidation(category, amount, description) ==
    \/ category = None
    \/ category[1] \notin {Income, Expense}
    \/ amount = None
    \/ ~ValidDescription(description)

(* C5: an add_entry call that fails validation (category missing or not    *)
(* recognised, amount missing, description missing, empty or of length     *)
(* >= 64) is rejected with a message, no exception leaves the call, and    *)
(* balance, rows and file are what they were.                              *)
C5_InvalidAddRejected ==
    \A category \in FieldsCategoryArgs, date \in FieldsDateArgs,
       amount \in FieldsAmountArgs, description \in FieldsDescriptionArgs :
        C5_FailsValidation(category, amount, description)
          => LET after == add_entry(category, date, amount, description)
             IN  /\ NoMutation(after)
                 /\ after.last.raised = "None"
                 /\ after.last.printed # <<>>

C5_Witness ==
    /\ last.op = "add_entry"
    /\ last.printed = <<MsgRequiredFields>>
    /\ Len(data) >= 1
    /\ balance > 0

-----------------------------------------------------------------------------
(* C6: a successful add_entry changes the balance by +amount for Income    *)
(* and by -amount for Expense and appends exactly one row carrying the     *)
(* given category, amount and description, whose id is the number of rows  *)
(* before the call; the earlier rows are unchanged.                        *)
C6_SuccessfulAddAppends ==
    \A category \in CategoryArgs, date \in DateArgs, amount \in AmountArgs,
       description \in DescriptionArgs :
        LET after == add_entry(category, date, amount, description)
            n == Len(data)
        IN  Succeeded(after)
              => /\ after.balance = balance + (IF category[1] = Income
                                               THEN amount[1] ELSE 0 - amount[1])
                 /\ Len(after.data) = n + 1
                 /\ after.data[n + 1].id = n
                 /\ after.data[n + 1].category = category[1]
                 /\ after.data[n + 1].amount = amount[1]
                 /\ after.data[n + 1].description = description[1]
                 /\ \A i \in 1..n : after.data[i] = data[i]

C6_Witness ==
    /\ last.op = "add_entry"
    /\ last.printed = <<>>
    /\ last.raised = "None"
    /\ Len(data) = 2
    /\ data[2].category = Expense

-----------------------------------------------------------------------------
(* C7: edit_entry with an id that no stored row has prints the invalid     *)
(* record number message and mutates nothing: balance, rows and file are   *)
(* what they were, whatever the other arguments are.                       *)
C7_UnknownIdEditsNothing ==
    \A index \in FieldsIndexArgs, category \in FieldsCategoryArgs,
       date \in FieldsDateArgs, amount \in FieldsAmountArgs,
       description \in FieldsDescriptionArgs :
        index \notin Labels(data)
          => LET after == edit_entry(index, category, date, amount, description)
             IN  /\ NoMutation(after)
                 /\ after.last.printed = <<MsgBadRecordNumber>>
                 /\ after.last.raised = "None"

C7_Witness ==
    /\ last.op = "edit_entry"
    /\ last.printed = <<MsgBadRecordNumber>>
    /\ Len(data) >= 1

-----------------------------------------------------------------------------
(* C8: constructing the wallet sets the balance to the sum of the Income   *)
(* amounts minus the sum of the Expense amounts of the loaded rows, one    *)
(* row per row of the file; without a file there are no rows and the       *)
(* balance is 0.                                                           *)
C8_ConstructionSumsRows ==
    last.op = "__init__"
      => /\ balance = LedgerBalance(data)
         /\ Len(data) = Len(file.rows)
         /\ \A i \in 1..Len(data) :
               /\ data[i].category = file.rows[i].category
               /\ data[i].amount = file.rows[i].amount
         /\ ~file.exists => (data = <<>> /\ balance = 0)

C8_Witness ==
    /\ last.op = "__init__"
    /\ file.exists
    /\ Len(data) = 2
    /\ data[1].category = Income
    /\ data[2].category = Expense
    /\ balance > 0

-----------------------------------------------------------------------------
DateText(v) == IF v.type = "str" THEN v.text ELSE IsoDate(v)

C9_Chosen(index, category, date, amount) ==
    LET byId(r) == r.id = index[1]
        byCategory(r) == r.category = category[1]
        byDate(r) == DateText(r.date) = date[1]
        byAmount(r) == r.amount = amount[1]
    IN  IF index # None THEN SelectSeq(data, byId)
        ELSE IF category # None THEN SelectSeq(data, byCategory)
        ELSE IF date # None THEN SelectSeq(data, byDate)
        ELSE IF amount # None THEN SelectSeq(data, byAmount)
        ELSE <<>>

C9_RowsOf(ret) == IF ret = None THEN <<>> ELSE ret[1]

(* C9: search_entries uses the first supplied criterion in the order id,   *)
(* category, date, amount and ignores the later ones: with an id it        *)
(* returns the row with that id (nothing if absent), otherwise exactly the *)
(* stored rows whose chosen field equals the criterion.                    *)
C9_SearchUsesFirstCriterion ==
    \A index \in SearchIndexArgs, category \in SearchCategoryArgs,
       date \in SearchDateArgs, amount \in SearchAmountArgs :
        C9_RowsOf(search_entries(index, category, date, amount).last.ret)
          = C9_Chosen(index, category, date, amount)

-----------------------------------------------------------------------------
(* C10: the ids of the stored rows are 0..n-1 in insertion order; an       *)
(* add_entry call leaves the rows alone or appends one row with id n; an   *)
(* edit_entry call adds, removes and renumbers no row and changes no row   *)
(* but the one it names; no call decreases the number of rows.             *)
C10_IdsArePositions ==
    /\ \A i \in 1..Len(data) : data[i].id = i - 1
    /\ \A category \in CategoryArgs, date \in DateArgs, amount \in AmountArgs,
          description \in DescriptionArgs :
          LET after == add_entry(category, date, amount, description)
          IN  \/ after.data = data
              \/ /\ Len(after.data) = Len(data) + 1
                 /\ after.data[Len(data) + 1].id = Len(data)
                 /\ \A i \in 1..Len(data) : after.data[i] = data[i]
    /\ \A index \in IndexArgs, category \in CategoryArgs, date \in DateArgs,
          amount \in AmountArgs, description \in DescriptionArgs :
          LET after == edit_entry(index, category, date, amount, description)
          IN  /\ Len(after.data) = Len(data)
              /\ \A i \in 1..Len(data) :
                    /\ after.data[i].id = data[i].id
                    /\ data[i].id # index => after.data[i] = data[i]

C10_Witness ==
    /\ Len(data) = 2
    /\ last.op = "edit_entry"
    /\ last.applied = {"category", "amount"}
    /\ data[1].category # data[2].category

-----------------------------------------------------------------------------
(* C11: every stored row has a strictly positive amount: add_entry and     *)
(* edit_entry store no amount that is zero or negative.                    *)
C11_StoredAmountsPositive == \A i \in 1..Len(data) : data[i].amount > 0

-----------------------------------------------------------------------------
(* C12: search_entries and get_balance are read-only: a call of either     *)
(* leaves rows, balance and file as they were (so a repeated search sees   *)
(* the same wallet and returns the same rows), and get_balance returns the *)
(* balance.                                                                *)
C12_ReadsAreReadOnly ==
    /\ NoMutation(get_balance)
    /\ get_balance.last.ret = Some(balance)
    /\ \A index \in SearchIndexArgs, category \in SearchCategoryArgs,
          date \in SearchDateArgs, amount \in SearchAmountArgs :
          NoMutation(search_entries(index, category, date, amount))

C12_Witness ==
    /\ last.op = "search_entries"
    /\ last.ret # None
    /\ Len(data) = 2
    /\ Len(last.ret[1]) = 1

-----------------------------------------------------------------------------
(* C14: edit_entry(id, category = c2, amount = a2) on an existing row of   *)
(* category c1 # c2 and amount a1, with a2 > 0: when balance minus the     *)
(* row's old signed amount plus a2 signed by c2 is >= 0, the row ends with *)
(* category c2 and amount a2 and the balance is that value; the other      *)
(* rows are untouched.                                                     *)
SignedBy(category, amount) == IF category = Income THEN amount ELSE 0 - amount

PositiveAmounts == {a \in AmountArgs : TruthyNum(a) /\ a[1] > 0}

C14_CategoryAndAmountCommitTogether ==
    \A index \in IndexArgs, amount \in PositiveAmounts :
        \A c2 \in {Income, Expense} :
            HasLabel(data, index) =>
                LET at == Loc(data, index)
                    net == balance - SignedAmount(data[at]) + SignedBy(c2, amount[1])
                    after == edit_entry(index, Some(c2), None, amount, None)
                IN  (data[at].category # c2 /\ net >= 0)
                      => /\ after.data = [data EXCEPT ![at].category = c2,
                                                      ![at].amount = amount[1]]
                         /\ after.balance = net

\* an Income row of 50 became an Expense row of 100 next to another row
C14_Witness ==
    /\ last.op = "edit_entry"
    /\ last.applied = {"category", "amount"}
    /\ Len(data) = 2
    /\ \E i \in 1..2 : data[i].category = Expense /\ data[i].amount = 100
    /\ balance = 0

-----------------------------------------------------------------------------
(* C15: edit_entry on an existing row with only a category (recognised,    *)
(* different from the row's) or only a positive amount is applied exactly  *)
(* when balance minus the row's old signed amount plus its new signed      *)
(* amount is >= 0; applied, the balance is that value and the row carries  *)
(* the new field; rejected, rows and balance are unchanged.                *)
C15_SingleFieldEdit ==
    \A index \in IndexArgs :
        HasLabel(data, index) =>
            LET at == Loc(data, index)
                old == SignedAmount(data[at])
            IN  /\ \A c2 \in {Income, Expense} :
                       data[at].category # c2 =>
                           LET net == balance - old + SignedBy(c2, data[at].amount)
                               after == edit_entry(index, Some(c2), None, None, None)
                           IN  IF net >= 0
                               THEN /\ after.data = [data EXCEPT ![at].category = c2]
                                    /\ after.balance = net
                               ELSE after.data = data /\ after.balance = balance
                /\ \A amount \in PositiveAmounts :
                       LET net == balance - old
                                    + SignedBy(data[at].category, amount[1])
                           after == edit_entry(index, None, None, amount, None)
                       IN  IF net >= 0
                           THEN /\ after.data = [data EXCEPT ![at].amount = amount[1]]
                                /\ after.balance = net
                           ELSE after.data = data /\ after.balance = balance

\* a category-only edit was refused for the balance it would give
C15_Witness ==
    /\ last.op = "edit_entry"
    /\ last.applied = {}
    /\ last.rejected = {"category"}
    /\ Len(data) = 2
    /\ balance > 0

-----------------------------------------------------------------------------
(* C16: add_entry is all-or-nothing for every input, a date of the right   *)
(* shape that is no calendar date included: when the call ends, either one *)
(* row was appended and the balance moved by that row's signed amount, or  *)
(* rows and balance are both what they were.                               *)
C16_AddAllOrNothing ==
    \A category \in FieldsCategoryArgs, date \in FieldsDateArgs,
       amount \in FieldsAmountArgs, description \in FieldsDescriptionArgs :
        LET after == add_entry(category, date, amount, description)
        IN  \/ /\ Len(after.data) = Len(data) + 1
               /\ SubSeq(after.data, 1, Len(data)) = data
               /\ after.balance = balance + SignedAmount(after.data[Len(after.data)])
            \/ /\ after.data = data
               /\ after.balance = balance

-----------------------------------------------------------------------------
(* C17: after every add_entry or edit_entry call, however it ended, a      *)
(* wallet constructed from the file has the rows (id, category, amount,    *)
(* description) and the balance the wallet in memory has.                  *)
RowFields(rows) ==
    [i \in 1..Len(rows) |->
        [id |-> rows[i].id, category |-> rows[i].category,
         amount |-> rows[i].amount, description |-> rows[i].description]]

C17_FileMatchesMemory ==
    last.op \in {"add_entry", "edit_entry"}
      => /\ RowFields(Wallet__init__(file).data) = RowFields(data)
         /\ Wallet__init__(file).balance = balance

-----------------------------------------------------------------------------
(* C18: within one edit_entry call on an existing row the fields are       *)
(* applied or rejected one by one: a description that is non-empty and     *)
(* shorter than 64 characters is stored, and an amount whose own balance   *)
(* check passes (no category supplied) is stored, whatever the other       *)
(* fields of the call are.                                                 *)
C18_FieldsIndependent ==
    \A index \in IndexArgs, category \in LoadCategoryArgs, date \in LoadDateArgs,
       amount \in LoadAmountArgs, description \in LoadDescriptionArgs :
        HasLabel(data, index) =>
            LET at == Loc(data, index)
                after == edit_entry(index, category, date, amount, description)
            IN  /\ ValidDescription(description)
                     => /\ "description" \in after.last.applied
                        /\ after.data[at].description = description[1]
                /\ ( /\ category = None
                     /\ TruthyNum(amount)
                     /\ balance - SignedAmount(data[at])
                           + SignedBy(data[at].category, amount[1]) >= 0 )
                     => after.data[at].amount = amount[1]

-----------------------------------------------------------------------------
(* C19: edit_entry on an existing row with only a date and/or a            *)
(* description leaves the balance and the category and the amount of every *)
(* row as they were.                                                       *)
C19_DateAndDescriptionKeepBalance ==
    \A index \in FieldsIndexArgs, date \in FieldsDateArgs,
       description \in FieldsDescriptionArgs :
        HasLabel(data, index) =>
            LET after == edit_entry(index, None, date, None, description)
            IN  /\ after.balance = balance
                /\ Len(after.data) = Len(data)
                /\ \A i \in 1..Len(data) :
                       /\ after.data[i].category = data[i].category
                       /\ after.data[i].amount = data[i].amount

\* the date and the description of the only row were replaced while the
\* balance is not the sum of the rows
C19_Witness ==
    /\ last.op = "edit_entry"
    /\ last.applied = {"date", "description"}
    /\ Len(data) = 1
    /\ data[1].date = to_datetime(GoodDate)
    /\ balance # LedgerBalance(data)

-----------------------------------------------------------------------------
(* C13: no operation that was rejected or failed ends the menu loop: after *)
(* an iteration that selected any option but exit, or none, whether the    *)
(* call succeeded, was rejected, raised or its input did not convert, the  *)
(* loop still runs, and what the menu caught it reported.                  *)
C13_OnlyExitEndsLoop ==
    /\ menu.option # "exit" => menu.running
    /\ menu.caught # "None" => menu.printed # <<>>

\* add_entry called from the menu raised ValueError on the date, after the
\* balance changer ran
C13_Witness ==
    /\ menu.running
    /\ menu.option = "add_entry"
    /\ menu.caught = "ValueError"
    /\ last.op = "add_entry"
    /\ last.raised = "ValueError"
    /\ balance > LedgerBalance(data)

-----------------------------------------------------------------------------
(* C20: a choice that is an integer outside 1..N, N the number of options, *)
(* selects no option: it is reported as an incorrect menu item and the     *)
(* loop goes on, so the loop has ended only when the number of the exit    *)
(* option was typed.                                                       *)
C20_ChoiceOutsideMenuRunsNothing ==
    /\ (menu.choice # None /\ menu.choice[1] \notin 1..Len(options))
         => /\ menu.option = "none"
            /\ menu.running
            /\ menu.printed = <<MsgChooseMenuItem>>
    /\ ~menu.running => menu.choice = Some(Len(options))

====
